---- MODULE Spec2Model ----
(***************************************************************************)
(* Model of the version / patch / upload pipeline of brave-core-crx-       *)
(* packager (src/lib/util.js) and of the ntp-sponsored-images packaging    *)
(* script (src/unnamed/part_000).                                          *)
(*                                                                         *)
(* Strings whose characters matter (versions, component names) are tuples  *)
(* of one-character strings, so that split / join / replace / Number() /   *)
(* toString() are computed the way the JavaScript computes them.           *)
(***************************************************************************)
EXTENDS Integers, Sequences, FiniteSets, TLC

VARIABLES
  ledger,     \* the DynamoDB table 'Extensions': identity -> Items of a query
  next,       \* the last getNextVersion call: its arguments, what it read, its result
  storage,    \* the S3 bucket: key -> [body, tags] of the objects it holds
  patchDir,   \* build/patches/{id}/{hash}: directory -> the files in it
  up,         \* the uploadExtension call: its arguments, where it stands, how it ended
  jobs,       \* uploadJobs of that call: patch file -> "inflight" | "done" | "failed"
  ops,        \* S3 commands of that call, in the order they settled
  calls,      \* number of uploadCRXFile (or fetchPreviousVersions) calls made so far
  previousDir,\* build/previous/{id}: identity -> the files downloaded into it
  fetch,      \* the last fetchPreviousVersions call: the keys it requested, how it ended
  gen,        \* the last generatePuffPatches call: the files it diffed, how it ended
  pc,         \* the stage of the publish pipeline run
  run,        \* that run: its identity and content hash, what it read, what it packed
  runs,       \* number of pipeline runs started so far
  history,    \* identity -> its successful publishes, in order: the content hash, and
              \* whether the run found no record of the identity
  ft,         \* the fetchTextFromURL call: its promise chain, its attempts, the clock
  script,     \* the ntp-sponsored-images script: its inputs, its stage, what it sent
  ver,        \* a version, what incrementVersion made of it, and getPreviousVersion of that
  race        \* two publishes of one identity that overlap: run -> where it stands

ledgerVars == <<ledger, next>>

uploadVars == <<storage, patchDir, up, jobs, ops, calls>>

patchVars == <<previousDir, fetch, gen>>

pipeVars == <<pc, run, runs, history>>

auxVars == <<ft, script, ver, race>>

vars ==
  <<ledger, next, storage, patchDir, up, jobs, ops, calls, previousDir, fetch, gen,
    pc, run, runs, history, ft, script, ver, race>>

----------------------------------------------------------------------------
(* Bounds of the model *)

\* uploadCRXFile calls in one behaviour
MaxUploads == 2

\* the largest num a caller passes to fetchPreviousVersions
MaxNum == 2

\* fetchPreviousVersions calls in one behaviour
MaxFetches == 2

\* pipeline runs in one behaviour
MaxRuns == 3

\* the largest trailing segment of the versions given to incrementVersion
MaxSegment == 12

----------------------------------------------------------------------------
(* JavaScript strings and numbers *)

\* the value undefined; every JavaScript string of the model is a tuple
Undefined == <<"undefined">>

DigitChars == <<"0", "1", "2", "3", "4", "5", "6", "7", "8", "9">>

IsDigit(c) == \E i \in 1..10 : DigitChars[i] = c

DigitValue(c) == (CHOOSE i \in 1..10 : DigitChars[i] = c) - 1

\* String.prototype.split(sep) for a one-character separator
RECURSIVE Split(_, _)
Split(s, sep) ==
  IF \A i \in 1..Len(s) : s[i] # sep
    THEN <<s>>
    ELSE LET i == CHOOSE k \in 1..Len(s) :
                    s[k] = sep /\ \A j \in 1..(k - 1) : s[j] # sep
         IN  <<SubSeq(s, 1, i - 1)>> \o Split(SubSeq(s, i + 1, Len(s)), sep)

\* Array.prototype.join(sep)
RECURSIVE Join(_, _)
Join(parts, sep) ==
  IF Len(parts) = 0 THEN <<>>
  ELSE IF Len(parts) = 1 THEN parts[1]
  ELSE parts[1] \o <<sep>> \o Join(Tail(parts), sep)

\* String.prototype.replace(/c/g, d)
ReplaceAll(s, c, d) == [i \in 1..Len(s) |-> IF s[i] = c THEN d ELSE s[i]]

RECURSIVE DigitsToNat(_)
DigitsToNat(s) ==
  IF Len(s) = 0 THEN 0
  ELSE 10 * DigitsToNat(SubSeq(s, 1, Len(s) - 1)) + DigitValue(s[Len(s)])

\* the strings ToNumber turns into an integer: '', digits, '-' digits
IsNumeric(s) ==
  \/ Len(s) = 0
  \/ \A i \in 1..Len(s) : IsDigit(s[i])
  \/ /\ Len(s) >= 2
     /\ s[1] = "-"
     /\ \A i \in 2..Len(s) : IsDigit(s[i])

\* ToNumber of a numeric string ('' is 0, leading zeros are dropped)
ToNumber(s) ==
  IF Len(s) = 0 THEN 0
  ELSE IF s[1] = "-" THEN 0 - DigitsToNat(Tail(s))
  ELSE DigitsToNat(s)

RECURSIVE NatToString(_)
NatToString(n) ==
  IF n < 10 THEN <<DigitChars[n + 1]>>
  ELSE NatToString(n \div 10) \o <<DigitChars[(n % 10) + 1]>>

\* Number.prototype.toString()
NumberToString(n) == IF n < 0 THEN <<"-">> \o NatToString(0 - n) ELSE NatToString(n)

NaNString == <<"N", "a", "N">>

----------------------------------------------------------------------------
(* Versions *)

FirstVersion == <<"1", ".", "0", ".", "0">>

EmptyString == <<>>

IncrementVersionSkipsNine(version) ==
  LET versionParts == Split(version, ".")
      last == versionParts[Len(versionParts)]
      n == ToNumber(last)
  IN  Join([versionParts EXCEPT ![Len(versionParts)] =
              IF IsNumeric(last)
                THEN NumberToString(IF n % 10 = 9 THEN n - 9 ELSE n + 1)
                ELSE NaNString], ".")

\* versionParts[versionParts.length - 1]++
incrementVersion(version) ==
  LET versionParts == Split(version, ".")
      last == versionParts[Len(versionParts)]
  IN  Join([versionParts EXCEPT ![Len(versionParts)] =
              IF IsNumeric(last) THEN NumberToString(ToNumber(last) + 1)
                                 ELSE NaNString], ".")

\* versionParts[versionParts.length - 1] -= diff
getPreviousVersion(version, diff) ==
  IF version = FirstVersion THEN FirstVersion
  ELSE LET versionParts == Split(version, ".")
           last == versionParts[Len(versionParts)]
       IN  Join([versionParts EXCEPT ![Len(versionParts)] =
                   IF IsNumeric(last) THEN NumberToString(ToNumber(last) - diff)
                                      ELSE NaNString], ".")

\* "1.0." followed by the decimal numeral of n
VersionOf(n) == <<"1", ".", "0", ".">> \o NatToString(n)

----------------------------------------------------------------------------
(* The ledger (DynamoDB table 'Extensions', hash key ID) *)

Identities == {"idA", "idB"}

\* content hashes a caller passes; Undefined is a call without one
H1 == <<"H1">>

H2 == <<"H2">>

ContentHashes == {H1, H2}

NoItems == <<>>

\* the item updateDynamoDB puts; ContentHash = Undefined is an item without the attribute
Item(id, version, hash, name, disabled, contentHash, patchList) ==
  [ID |-> id, SHA256 |-> hash, Version |-> version, Title |-> name,
   Disabled |-> disabled, PatchList |-> patchList, ContentHash |-> contentHash]

UpdateDynamoDBAppends(table, id, version, hash, name, disabled, contentHash, patchList) ==
  [table EXCEPT ![id] =
     Append(@, Item(id, version, hash, name, disabled, contentHash, patchList))]

\* PutItemCommand: the item replaces whatever the table holds under its ID
updateDynamoDB(table, id, version, hash, name, disabled, contentHash, patchList) ==
  [table EXCEPT ![id] =
     <<Item(id, version, hash, name, disabled, contentHash, patchList)>>]

\* QueryCommand with KeyConditionExpression 'ID = :id'
Query(table, id) == table[id]

GetNextVersionIgnoresHash(Items, contentHash) ==
  IF Len(Items) = 1 /\ Items[1].Version # EmptyString
    THEN incrementVersion(Items[1].Version)
    ELSE FirstVersion

GetNextVersionNoRecordIncrements(Items, contentHash) ==
  IF Len(Items) = 1
    THEN IF Items[1].ContentHash # Undefined /\ Items[1].ContentHash = contentHash
           THEN Undefined
           ELSE incrementVersion(Items[1].Version)
    ELSE incrementVersion(FirstVersion)

\* the .then callback of getNextVersion; Undefined is "no next version"
getNextVersion(Items, contentHash) ==
  IF Len(Items) = 1 /\ Items[1].Version # EmptyString
    THEN IF Items[1].ContentHash # Undefined /\ Items[1].ContentHash = contentHash
           THEN Undefined
           ELSE incrementVersion(Items[1].Version)
    ELSE FirstVersion

\* the SHA256 and Title of the items the table holds at the start
LedgerSha == <<"sha256", [id |-> "stored"]>>

LedgerTitle == <<"N", "T", "P">>

\* no getNextVersion call made yet
NoCall == [id |-> "none", contentHash |-> Undefined, Items |-> NoItems, result |-> Undefined]

----------------------------------------------------------------------------
(* The object store (S3 bucket S3_EXTENSIONS_BUCKET) and uploadExtension *)

\* the manifest name of each component
NameOf(id) == IF id = "idA" THEN <<"A", "d", " ", "(", "B", ")">> ELSE <<"N", "T", "P">>

\* a packed artifact: the staged content, and the version and name of its manifest
Crx(id, content, version, name) ==
  [id |-> id, content |-> content, version |-> version, name |-> name]

\* generateSHA256HashOfFile: a collision-free digest of the file's bytes
generateSHA256HashOfFile(body) == <<"sha256", body>>

TagChars ==
  {"a", "b", "c", "d", "e", "f", "g", "h", "i", "j", "k", "l", "m", "n", "o", "p", "q",
   "r", "s", "t", "u", "v", "w", "x", "y", "z", "A", "B", "C", "D", "E", "F", "G", "H",
   "I", "J", "K", "L", "M", "N", "O", "P", "Q", "R", "S", "T", "U", "V", "W", "X", "Y",
   "Z", "0", "1", "2", "3", "4", "5", "6", "7", "8", "9", "+", "-", "=", ".", "_", ":",
   "/", "@"}

\* String.prototype.replace(/[^a-zA-Z0-9+\-=._:/@]+/g, '')
RECURSIVE StripNonTagChars(_)
StripNonTagChars(s) ==
  IF Len(s) = 0 THEN <<>>
  ELSE (IF Head(s) \in TagChars THEN <<Head(s)>> ELSE <<>>) \o StripNonTagChars(Tail(s))

\* `extension_${version.replace(/\./g, '_')}.crx`
ComponentFilename(version) == <<"extension_">> \o ReplaceAll(version, ".", "_") \o <<".crx">>

\* name.replace(/\s/g, '-')
ComponentName(name) == ReplaceAll(name, " ", "-")

ComponentNameTag(name) == StripNonTagChars(ComponentName(name))

LatestVersionTagKey == <<"v", "e", "r", "s", "i", "o", "n">>

LatestVersionTagValue(name) == ComponentNameTag(name) \o <<"/", "l", "a", "t", "e", "s", "t">>

\* `release/${id}/${componentFilename}`
ReleaseKey(id, filename) == <<"release", id, filename>>

\* `release/${id}/patches/${hash}/${file}`
PatchKey(id, hash, file) == <<"release", id, "patches", hash, file>>

\* `build/patches/${id}/${hash}`
PatchDirOf(id, hash) == <<"build", "patches", id, hash>>

\* putObjectTaggingParams.Tagging.TagSet
NewTagSet(name, version) ==
  {[Key |-> ComponentNameTag(name), Value |-> version],
   [Key |-> LatestVersionTagKey, Value |-> LatestVersionTagValue(name)]}

PreviousTagSetKeepsLatest(name, version) ==
  {[Key |-> ComponentNameTag(name), Value |-> getPreviousVersion(version, 1)],
   [Key |-> LatestVersionTagKey, Value |-> LatestVersionTagValue(name)]}

\* putObjectTaggingParams2.Tagging.TagSet
PreviousTagSet(name, version) ==
  {[Key |-> ComponentNameTag(name), Value |-> getPreviousVersion(version, 1)]}

PreviousComponentFilename(version) == ComponentFilename(getPreviousVersion(version, 1))

\* PutObjectCommand: the object at the key is replaced, and a new object has no tags
PutObject(store, key, body) ==
  [k \in DOMAIN store \cup {key} |->
     IF k = key THEN [body |-> body, tags |-> {}] ELSE store[k]]

\* PutObjectTaggingCommand: the tag set of the object is replaced
PutObjectTagging(store, key, tagSet) == [store EXCEPT ![key].tags = tagSet]

\* a file of a directory listing: path.parse(file).name and .ext
File(name, ext) == [name |-> name, ext |-> ext]

\* the files of the patch directory that uploadExtension uploads
PuffFiles(listing) == {f \in listing : f.ext = ".puff"}

StartedUploadJobsOneAtATime(dirs, dir) ==
  IF dir \in DOMAIN dirs /\ PuffFiles(dirs[dir]) # {}
    THEN {CHOOSE f \in PuffFiles(dirs[dir]) : TRUE}
    ELSE {}

\* fs.readdirSync(patchDir).forEach: one uploadToS3 is started per .puff file; a
\* missing directory (ENOENT) starts none
StartedUploadJobs(dirs, dir) ==
  IF dir \in DOMAIN dirs THEN PuffFiles(dirs[dir]) ELSE {}

NoUpload ==
  [status |-> "none", step |-> "none", crx |-> Crx("none", Undefined, Undefined, Undefined)]

Running == up.status = "running"

UpVersion == up.crx.version

UpHash == generateSHA256HashOfFile(up.crx)

UpKey == ReleaseKey(up.crx.id, ComponentFilename(UpVersion))

UpPreviousKey == ReleaseKey(up.crx.id, PreviousComponentFilename(UpVersion))

Settled(command, key, outcome) == <<outcome, command, key>>

\* uploadExtension up to its first await: PutObject of the artifact is sent
UploadExtensionStart(crx) ==
  /\ up.status # "running"
  /\ \A f \in DOMAIN jobs : jobs[f] # "inflight"
  /\ up' = [status |-> "running", step |-> "putArtifact", crx |-> crx]
  /\ jobs' = <<>>
  /\ ops' = <<>>
  /\ UNCHANGED storage

\* a directory that does not exist: readdirSync throws ENOENT
NoDirectory == [exists |-> FALSE, files |-> {}]

Directory(files) == [exists |-> TRUE, files |-> files]

\* the directory is removed, or holds exactly the files of the listing
WriteDir(dirs, dir, listing) ==
  IF listing.exists
    THEN [d \in DOMAIN dirs \cup {dir} |-> IF d = dir THEN listing.files ELSE dirs[d]]
    ELSE [d \in DOMAIN dirs \ {dir} |-> dirs[d]]

PromiseAnyResolves(js) == \E f \in DOMAIN js : js[f] = "done"

\* await Promise.all(uploadJobs) resolves when every job has resolved (at once when there
\* is none)
PromiseAllResolves(js) == \A f \in DOMAIN js : js[f] = "done"

\* the artifact's PutObject succeeded: read the patch directory and start every patch
\* upload; with none started, Promise.all resolves and the first tagging is sent
ArtifactUploaded ==
  /\ Running /\ up.step = "putArtifact"
  /\ storage' = PutObject(storage, UpKey, up.crx)
  /\ LET started == StartedUploadJobs(patchDir, PatchDirOf(up.crx.id, UpHash))
     IN  /\ jobs' = [f \in started |-> "inflight"]
         /\ up' = [up EXCEPT !.step = IF PromiseAllResolves([f \in started |-> "inflight"])
                                         THEN "tagNew" ELSE "awaitPatches"]
         /\ ops' = ops \o <<Settled("PutObject", UpKey, "ok")>>
  /\ UNCHANGED <<patchDir, calls, ledgerVars, patchVars, pipeVars, auxVars>>

\* uploadToS3 throws 'Failed to upload extension to S3'
ArtifactUploadFailed ==
  /\ Running /\ up.step = "putArtifact"
  /\ up' = [up EXCEPT !.status = "rejected"]
  /\ ops' = ops \o <<Settled("PutObject", UpKey, "err")>>
  /\ UNCHANGED <<storage, patchDir, jobs, calls, ledgerVars, patchVars, pipeVars, auxVars>>

\* one patch upload succeeded; when it was the last one, Promise.all resolves and the
\* first tagging is sent.  An upload left in flight by a rejected call still settles.
PatchUploaded(f) ==
  /\ f \in DOMAIN jobs /\ jobs[f] = "inflight"
  /\ storage' = PutObject(storage, PatchKey(up.crx.id, UpHash, f), f)
  /\ jobs' = [jobs EXCEPT ![f] = "done"]
  /\ up' = IF Running /\ PromiseAllResolves([jobs EXCEPT ![f] = "done"])
             THEN [up EXCEPT !.step = "tagNew"]
             ELSE up
  /\ ops' = ops \o <<Settled("PutObject", PatchKey(up.crx.id, UpHash, f), "ok")>>
  /\ UNCHANGED <<patchDir, calls, ledgerVars, patchVars, pipeVars, auxVars>>

\* one patch upload failed: Promise.all rejects at once, and uploadExtension with it
PatchUploadFailed(f) ==
  /\ f \in DOMAIN jobs /\ jobs[f] = "inflight"
  /\ jobs' = [jobs EXCEPT ![f] = "failed"]
  /\ up' = IF Running THEN [up EXCEPT !.status = "rejected"] ELSE up
  /\ ops' = ops \o <<Settled("PutObject", PatchKey(up.crx.id, UpHash, f), "err")>>
  /\ UNCHANGED <<storage, patchDir, calls, ledgerVars, patchVars, pipeVars, auxVars>>

\* the process ends with patch uploads of a rejected call still in flight
PatchUploadsAbandoned ==
  /\ up.status = "rejected"
  /\ \E f \in DOMAIN jobs : jobs[f] = "inflight"
  /\ jobs' = [f \in DOMAIN jobs |-> IF jobs[f] = "inflight" THEN "abandoned" ELSE jobs[f]]
  /\ UNCHANGED <<storage, patchDir, up, ops, calls, ledgerVars, patchVars, pipeVars, auxVars>>

\* PutObjectTagging of the new artifact succeeded; HeadObject of the previous one is sent
NewArtifactTagged ==
  /\ Running /\ up.step = "tagNew"
  /\ storage' = PutObjectTagging(storage, UpKey, NewTagSet(up.crx.name, UpVersion))
  /\ up' = [up EXCEPT !.step = "head"]
  /\ ops' = ops \o <<Settled("PutObjectTagging", UpKey, "ok")>>
  /\ UNCHANGED <<patchDir, jobs, calls, ledgerVars, patchVars, pipeVars, auxVars>>

NewArtifactTaggingFailed ==
  /\ Running /\ up.step = "tagNew"
  /\ up' = [up EXCEPT !.status = "rejected"]
  /\ ops' = ops \o <<Settled("PutObjectTagging", UpKey, "err")>>
  /\ UNCHANGED <<storage, patchDir, jobs, calls, ledgerVars, patchVars, pipeVars, auxVars>>

\* HeadObject found the previous object: its PutObjectTagging is sent
PreviousFound ==
  /\ Running /\ up.step = "head"
  /\ UpPreviousKey \in DOMAIN storage
  /\ up' = [up EXCEPT !.step = "tagPrevious"]
  /\ ops' = ops \o <<Settled("HeadObject", UpPreviousKey, "ok")>>
  /\ UNCHANGED <<storage, patchDir, jobs, calls, ledgerVars, patchVars, pipeVars, auxVars>>

HeadNotFoundIsAnError(code) == "rejected"

HeadErrorAlwaysResolves(code) == "resolved"

\* the catch of the HeadObject call: err.code 'NotFound' returns, anything else throws
HeadErrorOutcome(code) == IF code = "NotFound" THEN "resolved" ELSE "rejected"

\* HeadObject failed with NotFound: there is no previous object
PreviousNotFound ==
  /\ Running /\ up.step = "head"
  /\ UpPreviousKey \notin DOMAIN storage
  /\ up' = [up EXCEPT !.status = HeadErrorOutcome("NotFound")]
  /\ ops' = ops \o <<Settled("HeadObject", UpPreviousKey, "NotFound")>>
  /\ UNCHANGED <<storage, patchDir, jobs, calls, ledgerVars, patchVars, pipeVars, auxVars>>

\* HeadObject failed for another reason
HeadFailed ==
  /\ Running /\ up.step = "head"
  /\ up' = [up EXCEPT !.status = HeadErrorOutcome("Other")]
  /\ ops' = ops \o <<Settled("HeadObject", UpPreviousKey, "err")>>
  /\ UNCHANGED <<storage, patchDir, jobs, calls, ledgerVars, patchVars, pipeVars, auxVars>>

\* PutObjectTagging of the previous object succeeded: uploadExtension returns
PreviousTagged ==
  /\ Running /\ up.step = "tagPrevious"
  /\ storage' = PutObjectTagging(storage, UpPreviousKey, PreviousTagSet(up.crx.name, UpVersion))
  /\ up' = [up EXCEPT !.status = "resolved"]
  /\ ops' = ops \o <<Settled("PutObjectTagging", UpPreviousKey, "ok")>>
  /\ UNCHANGED <<patchDir, jobs, calls, ledgerVars, patchVars, pipeVars, auxVars>>

PreviousTaggingFailed ==
  /\ Running /\ up.step = "tagPrevious"
  /\ up' = [up EXCEPT !.status = "rejected"]
  /\ ops' = ops \o <<Settled("PutObjectTagging", UpPreviousKey, "err")>>
  /\ UNCHANGED <<storage, patchDir, jobs, calls, ledgerVars, patchVars, pipeVars, auxVars>>

UploadStep ==
  \/ ArtifactUploaded
  \/ ArtifactUploadFailed
  \/ \E f \in DOMAIN jobs : PatchUploaded(f)
  \/ \E f \in DOMAIN jobs : PatchUploadFailed(f)
  \/ PatchUploadsAbandoned
  \/ NewArtifactTagged
  \/ NewArtifactTaggingFailed
  \/ PreviousFound
  \/ PreviousNotFound
  \/ HeadFailed
  \/ PreviousTagged
  \/ PreviousTaggingFailed

----------------------------------------------------------------------------
(* fetchPreviousVersions and generatePuffPatches *)

\* `build/previous/${id}`
DownloadDirOf(id) == <<"build", "previous", id>>

\* the key of the i-th download job, i = 1..num
PreviousKeyOf(crx, i) ==
  ReleaseKey(crx.id, ComponentFilename(getPreviousVersion(crx.version, i)))

DownloadNoSuchKeyThrows(store, key, failure) ==
  IF failure \/ key \notin DOMAIN store
    THEN [rejected |-> TRUE, files |-> {}]
    ELSE [rejected |-> FALSE,
          files |-> {File(generateSHA256HashOfFile(store[key].body), ".crx")}]

\* downloadFileFromS3(key, outputPath, true): the object is stored as <its sha256>.crx;
\* a key the bucket does not hold (err.name 'NoSuchKey') is logged and leaves no file;
\* failure is a GetObject or a write that ends with any other error, which is rethrown
downloadFileFromS3(store, key, failure) ==
  IF failure
    THEN [rejected |-> TRUE, files |-> {}]
  ELSE IF key \notin DOMAIN store
    THEN [rejected |-> FALSE, files |-> {}]
  ELSE [rejected |-> FALSE,
        files |-> {File(generateSHA256HashOfFile(store[key].body), ".crx")}]

\* the files that the downloads of the keys leave when none fails
DownloadedFiles(store, keys) ==
  UNION {downloadFileFromS3(store, k, FALSE).files : k \in keys}

NoFetch ==
  [status |-> "none", crx |-> Crx("none", Undefined, Undefined, Undefined), num |-> 0,
   requested |-> <<>>, failed |-> {}]

\* fetchPreviousVersions(crxFile, componentId, num); failed are the download jobs that
\* end with an error other than NoSuchKey.  Promise.all rejects when one job rejects.
FetchPreviousVersions(crx, num, failed) ==
  LET requested == [i \in 1..num |-> PreviousKeyOf(crx, i)]
      downloadJobs == [i \in 1..num |-> downloadFileFromS3(storage, requested[i], i \in failed)]
  IN  /\ previousDir' = WriteDir(previousDir, DownloadDirOf(crx.id),
                                 Directory(UNION {downloadJobs[i].files : i \in 1..num}))
      /\ fetch' = [status |-> IF \E i \in 1..num : downloadJobs[i].rejected
                                THEN "rejected" ELSE "resolved",
                   crx |-> crx,
                   num |-> num,
                   requested |-> requested,
                   failed |-> failed]

\* the files of a directory, none when it does not exist
FilesOf(dirs, dir) == IF dir \in DOMAIN dirs THEN dirs[dir] ELSE {}

\* fs.readdirSync: the entries of a directory, in the order the system lists them
RECURSIVE ReadDir(_)
ReadDir(files) ==
  IF files = {} THEN <<>>
  ELSE LET f == CHOOSE x \in files : TRUE IN <<f>> \o ReadDir(files \ {f})

GeneratePuffDiffThrowsOnError(outcome) ==
  [thrown |-> outcome # "ok", written |-> outcome = "ok"]

\* generatePuffDiff: a puffin that cannot be executed (result.error) is logged, and the
\* call returns normally either way
generatePuffDiff(outcome) == [thrown |-> FALSE, written |-> outcome = "ok"]

\* the forEach of generatePuffPatches over the listing: the files generatePuffDiff was
\* called for, the patches written, and whether the callback threw
RECURSIVE PatchJobs(_, _)
PatchJobs(listing, outcome) ==
  IF Len(listing) = 0 THEN [invoked |-> {}, written |-> {}, thrown |-> FALSE]
  ELSE LET file == Head(listing)
       IN  IF file.ext # ".crx" THEN PatchJobs(Tail(listing), outcome)
           ELSE LET job == generatePuffDiff(outcome[file])
                    rest == IF job.thrown
                              THEN [invoked |-> {}, written |-> {}, thrown |-> TRUE]
                              ELSE PatchJobs(Tail(listing), outcome)
                IN  [invoked |-> {file} \cup rest.invoked,
                     written |-> (IF job.written THEN {File(file.name, ".puff")} ELSE {})
                                   \cup rest.written,
                     thrown |-> rest.thrown]

NoGen == [status |-> "none", listing |-> {}, invoked |-> {}, errors |-> {}]

\* generatePuffPatches(crxFile, componentId, num); outcome gives what puffin does for
\* each previous artifact: "ok" or "error"
\* (outputDir is recreated first; a missing download directory makes readdirSync throw)
GeneratePuffPatches(crx, outcome) ==
  LET exists == DownloadDirOf(crx.id) \in DOMAIN previousDir
      listing == FilesOf(previousDir, DownloadDirOf(crx.id))
      result == PatchJobs(ReadDir(listing), outcome)
  IN  /\ patchDir' = WriteDir(patchDir, PatchDirOf(crx.id, generateSHA256HashOfFile(crx)),
                              Directory(result.written))
      /\ gen' = [status |-> IF result.thrown \/ ~exists THEN "rejected" ELSE "resolved",
                 listing |-> listing,
                 invoked |-> result.invoked,
                 errors |-> {f \in listing : outcome[f] = "error"}]

----------------------------------------------------------------------------
(* fetchTextFromURL *)

maxAttempts == 5

delayMs == 3000

\* the chain the loop builds: p = p.catch(attempt).catch(delayReject(delayMs)), once per
\* iteration
RECURSIVE RetryChain(_)
RetryChain(n) ==
  IF n = 0 THEN <<>> ELSE <<"attempt", "delayReject">> \o RetryChain(n - 1)

\* what fetch(listURL) gives: a response, whose body may fail to be read, or a rejection
Response(status, text, readable) ==
  [kind |-> "response", status |-> status, text |-> text, readable |-> readable]

Responses ==
  {Response(200, "list A", TRUE), Response(200, "list B", TRUE), Response(200, "", FALSE),
   Response(404, "not found", TRUE),
   [kind |-> "error", status |-> 0, text |-> "", readable |-> FALSE]}

\* time a fetch takes to settle, in ms
Latencies == {10, 20}

AttemptIgnoresStatus(response) ==
  IF response.kind = "response" /\ response.readable
    THEN [rejected |-> FALSE, value |-> response.text]
    ELSE [rejected |-> TRUE,
          value |-> IF response.kind = "error" THEN "fetch failed" ELSE "body unreadable"]

\* attempt(): the text of a response with status 200; anything else is rethrown as
\* 'Error when fetching ...'
attempt(response) ==
  IF response.kind = "response" /\ response.status = 200 /\ response.readable
    THEN [rejected |-> FALSE, value |-> response.text]
    ELSE [rejected |-> TRUE,
          value |-> IF response.kind = "error" THEN "fetch failed"
                    ELSE IF response.status # 200 THEN "Error status"
                    ELSE "body unreadable"]

ThenRuns(settled) == TRUE

\* the handler of a .catch runs when the promise before it is rejected, and is skipped
\* when it is fulfilled
CatchRuns(settled) == settled.rejected

NoFetchText ==
  [status |-> "none", k |-> 0, now |-> 0, started |-> <<>>, ended |-> <<>>, value |-> ""]

\* the promise before handler k + 1 of the chain settled at time now: the chain resolves,
\* rejects, or runs its next handler (an attempt starts a fetch, a delayReject a timer)
Settle(f, settled, now) ==
  LET chain == RetryChain(maxAttempts)
  IN  IF ~CatchRuns(settled)
        THEN [f EXCEPT !.status = "resolved", !.value = settled.value, !.now = now]
      ELSE IF f.k = Len(chain)
        THEN [f EXCEPT !.status = "rejected", !.value = settled.value, !.now = now]
      ELSE IF chain[f.k + 1] = "attempt"
        THEN [f EXCEPT !.k = f.k + 1, !.value = settled.value, !.now = now,
                       !.started = Append(@, now)]
      ELSE [f EXCEPT !.k = f.k + 1, !.value = settled.value, !.now = now]

\* fetchTextFromURL(listURL): p starts rejected, so the first attempt runs
FetchTextFromURLCall ==
  /\ ft.status = "none"
  /\ ft' = Settle([ft EXCEPT !.status = "pending"], [rejected |-> TRUE, value |-> ""], ft.now)
  /\ UNCHANGED <<ledgerVars, uploadVars, patchVars, pipeVars, script, ver, race>>

\* the fetch of the running attempt settles
AttemptSettled(response, latency) ==
  /\ ft.status = "pending"
  /\ RetryChain(maxAttempts)[ft.k] = "attempt"
  /\ LET settled == attempt(response)
         now == ft.now + latency
     IN  ft' = Settle([ft EXCEPT !.ended = Append(@, [at |-> now, rejected |-> settled.rejected,
                                                      status |-> response.status,
                                                      value |-> settled.value])],
                      settled, now)
  /\ UNCHANGED <<ledgerVars, uploadVars, patchVars, pipeVars, script, ver, race>>

\* the timer of delayReject fires: reject(reason)
DelayElapsed ==
  /\ ft.status = "pending"
  /\ RetryChain(maxAttempts)[ft.k] = "delayReject"
  /\ ft' = Settle(ft, [rejected |-> TRUE, value |-> ft.value], ft.now + delayMs)
  /\ UNCHANGED <<ledgerVars, uploadVars, patchVars, pipeVars, script, ver, race>>

----------------------------------------------------------------------------
(* The ntp-sponsored-images script (src/unnamed/part_000) *)

\* the keys of targetComponents, in the order of the for loop
TargetComponents == <<"idA", "idB">>

Components == {TargetComponents[i] : i \in 1..Len(TargetComponents)}

\* !x of a string or undefined
Falsy(x) == x = Undefined \/ x = EmptyString

\* util.generateCRXFile(binary, crxFile, privateKeyFile, publisherProofKey, inputDir):
\* the error it throws, or "ok"; keyExists is fs.existsSync(privateKeyFile), packed is
\* whether the packer run by execSync succeeds.  path.resolve of a value that is not a
\* string throws a TypeError.
generateCRXFile(binary, keyExists, publisherProofKey, inputDir, packed) ==
  IF Falsy(binary) THEN "Missing Brave binary: --binary"
  ELSE IF Falsy(publisherProofKey) THEN "Missing --publisher-proof-key <file>"
  ELSE IF ~keyExists THEN "Private key file is missing, was it uploaded?"
  ELSE IF inputDir = Undefined THEN "TypeError: path must be a string"
  ELSE IF ~packed THEN "Command failed"
  ELSE "ok"

StagingDirOf(platformRegion) == <<"build", "ntp-sponsored-images", "staging", platformRegion>>

\* the .then callback of the script's generateCRXFile: stageFiles, then
\* util.generateCRXFile(binary, crxFile, privateKeyFile, stagingDir), which binds
\* stagingDir to publisherProofKey and leaves inputDir undefined
GenerateCallback(binary, keyExists, platformRegion, staged, packed) ==
  IF ~staged THEN "ENOENT: no such file or directory"
  ELSE generateCRXFile(binary, keyExists, StagingDirOf(platformRegion), Undefined, packed)

QueryOf(id) == <<"Query", id>>

NoScript ==
  [stage |-> "none", keysDirectory |-> FALSE, binary |-> Undefined, keyFiles |-> {},
   tableExists |-> FALSE, sent |-> <<>>, pipes |-> [c \in Components |-> "notStarted"],
   error |-> ""]

\* process.exit(1) of installErrorHandlers, on an uncaught exception or an unhandled
\* rejection: nothing of the process runs after it
Exit(s, error) == [s EXCEPT !.stage = "exited", !.error = error]

\* the top-level statements up to createTableIfNotExists, which sends ListTables
ScriptStart ==
  /\ script.stage = "start"
  /\ script' =
       IF ~script.keysDirectory
         THEN Exit(script, "Missing or invalid private key directory")
       ELSE IF Falsy(script.binary)
         THEN Exit(script, "Missing Chromium binary: --binary")
       ELSE [script EXCEPT !.stage = "listing", !.sent = Append(@, <<"ListTables">>)]
  /\ UNCHANGED <<ledgerVars, uploadVars, patchVars, pipeVars, ft, ver, race>>

\* the for loop of the script: every component's getNextVersion query is sent before
\* any of them is answered
StartPipelines(s) ==
  [s EXCEPT !.stage = "running",
            !.sent = @ \o [i \in 1..Len(TargetComponents) |-> QueryOf(TargetComponents[i])],
            !.pipes = [c \in Components |-> "querying"]]

\* ListTables answers: the table is there, or CreateTable is sent
TablesListed ==
  /\ script.stage = "listing"
  /\ script' = IF script.tableExists
                 THEN StartPipelines(script)
                 ELSE [script EXCEPT !.stage = "creating", !.sent = Append(@, <<"CreateTable">>)]
  /\ UNCHANGED <<ledgerVars, uploadVars, patchVars, pipeVars, ft, ver, race>>

\* ListTables fails: the rejection has no handler
ListTablesFailed ==
  /\ script.stage = "listing"
  /\ script' = Exit(script, "ListTables failed")
  /\ UNCHANGED <<ledgerVars, uploadVars, patchVars, pipeVars, ft, ver, race>>

TableCreated ==
  /\ script.stage = "creating"
  /\ script' = StartPipelines([script EXCEPT !.tableExists = TRUE])
  /\ UNCHANGED <<ledgerVars, uploadVars, patchVars, pipeVars, ft, ver, race>>

CreateTableFailed ==
  /\ script.stage = "creating"
  /\ script' = Exit(script, "CreateTable failed")
  /\ UNCHANGED <<ledgerVars, uploadVars, patchVars, pipeVars, ft, ver, race>>

\* the query of one component answers and its callback runs; what it throws rejects a
\* promise that has no handler
QueryAnswered(c, staged, packed) ==
  /\ script.stage = "running"
  /\ script.pipes[c] = "querying"
  /\ LET outcome == GenerateCallback(script.binary, c \in script.keyFiles, c, staged, packed)
     IN  script' = IF outcome = "ok"
                     THEN [script EXCEPT !.pipes[c] = "generated"]
                     ELSE Exit([script EXCEPT !.pipes[c] = "failed"], outcome)
  /\ UNCHANGED <<ledgerVars, uploadVars, patchVars, pipeVars, ft, ver, race>>

\* the query of one component fails: the rejection has no handler
QueryFailed(c) ==
  /\ script.stage = "running"
  /\ script.pipes[c] = "querying"
  /\ script' = Exit([script EXCEPT !.pipes[c] = "failed"], "Query failed")
  /\ UNCHANGED <<ledgerVars, uploadVars, patchVars, pipeVars, ft, ver, race>>

----------------------------------------------------------------------------
(* incrementVersion followed by getPreviousVersion *)

\* incrementVersion(version) is called
IncrementVersionCall ==
  /\ ver.v # Undefined
  /\ ver.inc = Undefined
  /\ ver' = [ver EXCEPT !.inc = incrementVersion(ver.v)]
  /\ UNCHANGED <<ledgerVars, uploadVars, patchVars, pipeVars, ft, script, race>>

\* getPreviousVersion(version) is called with the incremented version and the default diff
GetPreviousVersionCall ==
  /\ ver.inc # Undefined
  /\ ver.back = Undefined
  /\ ver' = [ver EXCEPT !.back = getPreviousVersion(ver.inc, 1)]
  /\ UNCHANGED <<ledgerVars, uploadVars, patchVars, pipeVars, ft, script, race>>

----------------------------------------------------------------------------
(* Start values of the state outside the pipeline *)

NoVer == [v |-> Undefined, inc |-> Undefined, back |-> Undefined]

NoRace == <<>>

AuxIdle ==
  /\ ft = NoFetchText
  /\ script = NoScript
  /\ ver = NoVer
  /\ race = NoRace

----------------------------------------------------------------------------
(* The publish pipeline of one identity:                                   *)
(* decide version -> pack -> fetch previous -> generate deltas -> upload   *)
(* and tag -> record in the ledger                                         *)

GetDiffPatchListOfCrxFiles(dirs, id, hash) ==
  LET puffs == {f \in FilesOf(dirs, PatchDirOf(id, hash)) : f.ext = ".crx"}
  IN  [n \in {f.name : f \in puffs} |->
         [Namediff |-> <<n, ".puff">>,
          Hashdiff |-> generateSHA256HashOfFile(<<"puffdiff", n, hash>>),
          Sizediff |-> <<"size", n, hash>>]]

\* getDiffPatchList(id, hash): one entry per .puff file of the patch directory, keyed by
\* the file's base name; a missing directory gives no entry
getDiffPatchList(dirs, id, hash) ==
  LET puffs == {f \in FilesOf(dirs, PatchDirOf(id, hash)) : f.ext = ".puff"}
  IN  [n \in {f.name : f \in puffs} |->
         [Namediff |-> <<n, ".puff">>,
          Hashdiff |-> generateSHA256HashOfFile(<<"puffdiff", n, hash>>),
          Sizediff |-> <<"size", n, hash>>]]

NoRun ==
  [id |-> "none", content |-> Undefined, version |-> Undefined, answered |-> FALSE,
   crx |-> Crx("none", Undefined, Undefined, Undefined),
   ledger0 |-> <<>>, storage0 |-> <<>>]

PipelineIdle ==
  /\ pc = "idle"
  /\ run = NoRun
  /\ runs = 0
  /\ history = [i \in Identities |-> <<>>]

Terminal == {"NoChange", "RecordedInLedger", "Failed"}

\* a run starts when the one before it has ended and left no upload in flight
MayStart ==
  /\ pc \in Terminal \cup {"idle"}
  /\ \A f \in DOMAIN jobs : jobs[f] # "inflight"
  /\ runs < MaxRuns

StartRun(id, content, answered, version) ==
  /\ run' = [id |-> id, content |-> content, version |-> version, answered |-> answered,
             crx |-> Crx("none", Undefined, Undefined, Undefined),
             ledger0 |-> ledger, storage0 |-> storage]
  /\ runs' = runs + 1
  /\ up' = NoUpload
  /\ jobs' = <<>>
  /\ ops' = <<>>
  /\ fetch' = NoFetch
  /\ gen' = NoGen
  /\ UNCHANGED <<ledger, storage, patchDir, previousDir, calls, history, auxVars>>

\* getNextVersion answers: no next version ends the run, a version starts the publish
VersionDecided(id, content) ==
  /\ MayStart
  /\ LET version == getNextVersion(Query(ledger, id), content)
     IN  /\ next' = [id |-> id, contentHash |-> content, Items |-> Query(ledger, id),
                     result |-> version]
         /\ pc' = IF version = Undefined THEN "NoChange" ELSE "VersionDecided"
         /\ StartRun(id, content, TRUE, version)

\* the ledger query fails
VersionQueryFailed(id, content) ==
  /\ MayStart
  /\ pc' = "Failed"
  /\ StartRun(id, content, FALSE, Undefined)
  /\ UNCHANGED next

\* stageFiles and generateCRXFile: the manifest carries the decided version
Packed ==
  /\ pc = "VersionDecided"
  /\ pc' = "Packed"
  /\ run' = [run EXCEPT !.crx = Crx(run.id, run.content, run.version, NameOf(run.id))]
  /\ UNCHANGED <<ledgerVars, uploadVars, patchVars, runs, history, auxVars>>

\* a missing binary or key, or a failing packer
PackingFailed ==
  /\ pc = "VersionDecided"
  /\ pc' = "Failed"
  /\ UNCHANGED <<ledgerVars, uploadVars, patchVars, run, runs, history, auxVars>>

PreviousFetched(failed) ==
  /\ pc = "Packed"
  /\ FetchPreviousVersions(run.crx, MaxNum, failed)
  /\ pc' = IF fetch'.status = "resolved" THEN "Fetched" ELSE "Failed"
  /\ UNCHANGED <<ledgerVars, uploadVars, gen, run, runs, history, auxVars>>

DeltasGenerated(outcome) ==
  /\ pc = "Fetched"
  /\ GeneratePuffPatches(run.crx, outcome)
  /\ pc' = IF gen'.status = "resolved" THEN "DeltasGenerated" ELSE "Failed"
  /\ UNCHANGED <<ledgerVars, storage, up, jobs, ops, calls, previousDir, fetch,
                 run, runs, history, auxVars>>

\* uploadCRXFile
UploadStarted ==
  /\ pc = "DeltasGenerated"
  /\ UploadExtensionStart(run.crx)
  /\ pc' = "Uploading"
  /\ UNCHANGED <<ledgerVars, patchDir, calls, patchVars, run, runs, history, auxVars>>

UploadRejected ==
  /\ pc = "Uploading"
  /\ up.status = "rejected"
  /\ pc' = "Failed"
  /\ UNCHANGED <<ledgerVars, uploadVars, patchVars, run, runs, history, auxVars>>

\* the item updateDBForCRXFile writes
RecordedLedger ==
  updateDynamoDB(ledger, run.id, run.crx.version, generateSHA256HashOfFile(run.crx),
                 run.crx.name, FALSE, run.content,
                 getDiffPatchList(patchDir, run.id, generateSHA256HashOfFile(run.crx)))

\* updateDBForCRXFile after uploadCRXFile resolved: PutItem succeeds
Recorded ==
  /\ pc = "Uploading"
  /\ up.status = "resolved"
  /\ ledger' = RecordedLedger
  /\ pc' = "RecordedInLedger"
  /\ history' = [history EXCEPT ![run.id] =
                   Append(@, [content |-> run.content,
                              first |-> Query(run.ledger0, run.id) = NoItems])]
  /\ UNCHANGED <<next, uploadVars, patchVars, run, runs, auxVars>>

\* PutItem fails
RecordingFailed ==
  /\ pc = "Uploading"
  /\ up.status = "resolved"
  /\ pc' = "Failed"
  /\ UNCHANGED <<ledgerVars, uploadVars, patchVars, run, runs, history, auxVars>>

\* a record written before content hashes were kept, whose artifacts this bucket does
\* not hold
LegacyItem(id) == Item(id, VersionOf(9), LedgerSha, LedgerTitle, FALSE, Undefined, <<>>)

Init ==
  /\ ledger = [i \in Identities |-> IF i = "idB" THEN <<LegacyItem(i)>> ELSE NoItems]
  /\ next = NoCall
  /\ storage = <<>>
  /\ patchDir = <<>>
  /\ up = NoUpload
  /\ jobs = <<>>
  /\ ops = <<>>
  /\ calls = 0
  /\ previousDir = <<>>
  /\ fetch = NoFetch
  /\ gen = NoGen
  /\ PipelineIdle
  /\ AuxIdle

Next ==
  \/ \E id \in Identities, content \in ContentHashes : VersionDecided(id, content)
  \/ \E id \in Identities, content \in ContentHashes : VersionQueryFailed(id, content)
  \/ Packed
  \/ PackingFailed
  \/ \E failed \in SUBSET (1..MaxNum) : PreviousFetched(failed)
  \/ \E outcome \in [FilesOf(previousDir, DownloadDirOf(run.id)) -> {"ok", "error"}] :
       DeltasGenerated(outcome)
  \/ UploadStarted
  \/ UploadStep
  \/ UploadRejected
  \/ Recorded
  \/ RecordingFailed

Spec == Init /\ [][Next]_vars

----------------------------------------------------------------------------
(* SpecRace: two publishes of one identity whose steps interleave; nothing  *)
(* in the code keeps them apart.                                           *)

Racers == {1, 2}

RaceIdentity == "idA"

\* the artifact a run packs once its version is decided
RaceCrx(r) == Crx(RaceIdentity, race.runs[r].content, race.runs[r].version, NameOf(RaceIdentity))

RaceKey(r) == ReleaseKey(RaceIdentity, ComponentFilename(race.runs[r].version))

RacePreviousKey(r) == ReleaseKey(RaceIdentity, PreviousComponentFilename(race.runs[r].version))

InitRace ==
  /\ ledger \in {[i \in Identities |-> NoItems],
                 [i \in Identities |-> IF i = RaceIdentity THEN <<LegacyItem(i)>> ELSE NoItems]}
  /\ next = NoCall
  /\ storage = <<>>
  /\ patchDir = <<>>
  /\ up = NoUpload
  /\ jobs = <<>>
  /\ ops = <<>>
  /\ calls = 0
  /\ previousDir = <<>>
  /\ fetch = NoFetch
  /\ gen = NoGen
  /\ PipelineIdle
  /\ ft = NoFetchText
  /\ script = NoScript
  /\ ver = NoVer
  /\ race \in {[runs |-> [r \in Racers |->
                             [pc |-> "start", content |-> c[r], Items |-> NoItems,
                              version |-> Undefined]],
                  puts |-> <<>>, records |-> <<>>] :
                 c \in [Racers -> ContentHashes]}

\* getNextVersion of run r answers
RaceVersionDecided(r) ==
  /\ race.runs[r].pc = "start"
  /\ LET Items == Query(ledger, RaceIdentity)
         version == getNextVersion(Items, race.runs[r].content)
     IN  race' = [race EXCEPT !.runs[r].Items = Items,
                              !.runs[r].version = version,
                              !.runs[r].pc = IF version = Undefined THEN "NoChange"
                                                                     ELSE "VersionDecided"]
  /\ UNCHANGED <<ledgerVars, uploadVars, patchVars, pipeVars, ft, script, ver>>

\* uploadExtension of run r: the PutObject of its artifact succeeds (it has no patches)
RaceArtifactUploaded(r) ==
  /\ race.runs[r].pc = "VersionDecided"
  /\ storage' = PutObject(storage, RaceKey(r), RaceCrx(r))
  /\ race' = [race EXCEPT !.runs[r].pc = "Uploaded", !.puts = Append(@, r)]
  /\ UNCHANGED <<ledgerVars, patchDir, up, jobs, ops, calls, patchVars, pipeVars,
                 ft, script, ver>>

\* the PutObjectTagging of the new artifact succeeds
RaceNewArtifactTagged(r) ==
  /\ race.runs[r].pc = "Uploaded"
  /\ storage' = PutObjectTagging(storage, RaceKey(r),
                                 NewTagSet(NameOf(RaceIdentity), race.runs[r].version))
  /\ race' = [race EXCEPT !.runs[r].pc = "TaggedNew"]
  /\ UNCHANGED <<ledgerVars, patchDir, up, jobs, ops, calls, patchVars, pipeVars,
                 ft, script, ver>>

\* HeadObject of the previous object, and its PutObjectTagging when it is there
RacePreviousTagged(r) ==
  /\ race.runs[r].pc = "TaggedNew"
  /\ storage' = IF RacePreviousKey(r) \in DOMAIN storage
                  THEN PutObjectTagging(storage, RacePreviousKey(r),
                                        PreviousTagSet(NameOf(RaceIdentity), race.runs[r].version))
                  ELSE storage
  /\ race' = [race EXCEPT !.runs[r].pc = "Tagged"]
  /\ UNCHANGED <<ledgerVars, patchDir, up, jobs, ops, calls, patchVars, pipeVars,
                 ft, script, ver>>

\* updateDBForCRXFile of run r: PutItem succeeds
RaceRecorded(r) ==
  /\ race.runs[r].pc = "Tagged"
  /\ ledger' = updateDynamoDB(ledger, RaceIdentity, race.runs[r].version,
                              generateSHA256HashOfFile(RaceCrx(r)), NameOf(RaceIdentity),
                              FALSE, race.runs[r].content,
                              getDiffPatchList(patchDir, RaceIdentity,
                                               generateSHA256HashOfFile(RaceCrx(r))))
  /\ race' = [race EXCEPT !.runs[r].pc = "RecordedInLedger", !.records = Append(@, r)]
  /\ UNCHANGED <<next, uploadVars, patchVars, pipeVars, ft, script, ver>>

NextRace ==
  \/ \E r \in Racers : RaceVersionDecided(r)
  \/ \E r \in Racers : RaceArtifactUploaded(r)
  \/ \E r \in Racers : RaceNewArtifactTagged(r)
  \/ \E r \in Racers : RacePreviousTagged(r)
  \/ \E r \in Racers : RaceRecorded(r)

SpecRace == InitRace /\ [][NextRace]_vars

----------------------------------------------------------------------------
(* SpecUpload: uploadCRXFile called, one call at a time, with artifacts of  *)
(* any version against whatever the bucket holds by then.                  *)

UploadVersions == {VersionOf(0), VersionOf(1), VersionOf(2)}

UploadCrxs == {Crx("idA", H1, v, NameOf("idA")) : v \in UploadVersions}

Patch1 == File(<<"sha256", "previous1">>, ".puff")

Patch2 == File(<<"sha256", "previous2">>, ".puff")

\* what build/patches/{id}/{hash} holds when uploadCRXFile is called
PatchListings ==
  {NoDirectory, Directory({Patch1, Patch2}), Directory({Patch1, File(<<"notes">>, ".txt")})}

InitUpload ==
  /\ ledger = [i \in Identities |-> NoItems]
  /\ next = NoCall
  /\ storage = <<>>
  /\ patchDir = <<>>
  /\ up = NoUpload
  /\ jobs = <<>>
  /\ ops = <<>>
  /\ calls = 0
  /\ previousDir = <<>>
  /\ fetch = NoFetch
  /\ gen = NoGen
  /\ PipelineIdle
  /\ AuxIdle

\* uploadCRXFile(endpoint, region, crxFile, componentId)
UploadCRXFileCall(crx, listing) ==
  /\ calls < MaxUploads
  /\ UploadExtensionStart(crx)
  /\ patchDir' = WriteDir(patchDir, PatchDirOf(crx.id, generateSHA256HashOfFile(crx)), listing)
  /\ calls' = calls + 1
  /\ UNCHANGED <<ledgerVars, patchVars, pipeVars, auxVars>>

NextUpload ==
  \/ \E crx \in UploadCrxs, listing \in PatchListings : UploadCRXFileCall(crx, listing)
  \/ UploadStep

SpecUpload == InitUpload /\ [][NextUpload]_vars

----------------------------------------------------------------------------
(* SpecLedger: getNextVersion and updateDynamoDB called against a table    *)
(* that holds, per identity, any of the item shapes the code tests for:    *)
(* no item, an item with an empty Version, an item without ContentHash.    *)

StoredVersions ==
  {EmptyString, VersionOf(0), VersionOf(9), <<"2", ".", "0", "9">>}

StoredItems(id) ==
  {Item(id, v, LedgerSha, LedgerTitle, FALSE, c, <<>>) :
     v \in StoredVersions, c \in ContentHashes \cup {Undefined}}

LedgerShapes(id) == {NoItems} \cup {<<it>> : it \in StoredItems(id)}

InitLedger ==
  /\ ledger \in {t \in [Identities -> UNION {LedgerShapes(i) : i \in Identities}] :
                    \A i \in Identities : t[i] \in LedgerShapes(i)}
  /\ next = NoCall
  /\ storage = <<>>
  /\ patchDir = <<>>
  /\ up = NoUpload
  /\ jobs = <<>>
  /\ ops = <<>>
  /\ calls = 0
  /\ previousDir = <<>>
  /\ fetch = NoFetch
  /\ gen = NoGen
  /\ PipelineIdle
  /\ AuxIdle

\* getNextVersion(endpoint, region, id, contentHash): the query and its callback
GetNextVersionCall(id, contentHash) ==
  /\ next' = [id |-> id, contentHash |-> contentHash, Items |-> Query(ledger, id),
              result |-> getNextVersion(Query(ledger, id), contentHash)]
  /\ UNCHANGED <<ledger, uploadVars, patchVars, pipeVars, auxVars>>

\* the hash, title and patch manifest the calls write, which no stored item has
WrittenSha == <<"sha256", [id |-> "written"]>>

WrittenPatchList ==
  [n \in {<<"sha256", "previous">>} |->
     [Namediff |-> <<n, ".puff">>, Hashdiff |-> <<"sha256", "puff">>, Sizediff |-> <<"1">>]]

\* updateDynamoDB(endpoint, region, id, version, hash, name, disabled, contentHash, patchList)
UpdateDynamoDBCall(id, version, contentHash) ==
  /\ ledger' = updateDynamoDB(ledger, id, version, WrittenSha, NameOf(id), TRUE,
                              contentHash, WrittenPatchList)
  /\ UNCHANGED <<next, uploadVars, patchVars, pipeVars, auxVars>>

NextLedger ==
  \/ \E id \in Identities, c \in ContentHashes \cup {Undefined} :
       GetNextVersionCall(id, c)
  \/ \E id \in Identities, v \in StoredVersions, c \in ContentHashes \cup {Undefined} :
       UpdateDynamoDBCall(id, v, c)

SpecLedger == InitLedger /\ [][NextLedger]_vars

----------------------------------------------------------------------------
(* SpecPatches: fetchPreviousVersions and generatePuffPatches called with   *)
(* artifacts of any version against a bucket that holds any of the         *)
(* artifacts published before.                                             *)

PatchCrxs == {Crx("idA", H2, v, NameOf("idA")) : v \in UploadVersions}

PublishedCrxs == {Crx("idA", H1, v, NameOf("idA")) : v \in {VersionOf(0), VersionOf(1)}}

\* the bucket after the artifacts of cs were uploaded, cs[1] last
RECURSIVE BucketOf(_)
BucketOf(cs) ==
  IF cs = {} THEN <<>>
  ELSE LET c == CHOOSE x \in cs : TRUE
       IN  PutObject(BucketOf(cs \ {c}), ReleaseKey(c.id, ComponentFilename(c.version)), c)

InitPatches ==
  /\ ledger = [i \in Identities |-> NoItems]
  /\ next = NoCall
  /\ storage \in {BucketOf(cs) : cs \in SUBSET PublishedCrxs}
  /\ patchDir = <<>>
  /\ up = NoUpload
  /\ jobs = <<>>
  /\ ops = <<>>
  /\ calls = 0
  /\ previousDir = <<>>
  /\ fetch = NoFetch
  /\ gen = NoGen
  /\ PipelineIdle
  /\ AuxIdle

FetchPreviousVersionsCall(crx, num, failed) ==
  /\ calls < MaxFetches
  /\ calls' = calls + 1
  /\ FetchPreviousVersions(crx, num, failed)
  /\ UNCHANGED <<ledgerVars, storage, patchDir, up, jobs, ops, gen, pipeVars, auxVars>>

\* the patches are generated for the artifact whose previous versions were fetched
GeneratePuffPatchesCall(crx, outcome) ==
  /\ fetch.crx = crx
  /\ GeneratePuffPatches(crx, outcome)
  /\ UNCHANGED <<ledgerVars, storage, up, jobs, ops, calls, previousDir, fetch, pipeVars, auxVars>>

NextPatches ==
  \/ \E crx \in PatchCrxs, num \in 0..MaxNum :
       \E failed \in SUBSET (1..num) : FetchPreviousVersionsCall(crx, num, failed)
  \/ \E crx \in PatchCrxs :
       \E outcome \in [FilesOf(previousDir, DownloadDirOf(crx.id)) -> {"ok", "error"}] :
         GeneratePuffPatchesCall(crx, outcome)

SpecPatches == InitPatches /\ [][NextPatches]_vars

----------------------------------------------------------------------------
(* SpecFetchText: one fetchTextFromURL call against a server that answers   *)
(* each attempt in any way.                                                *)

InitFetchText ==
  /\ ledger = [i \in Identities |-> NoItems]
  /\ next = NoCall
  /\ storage = <<>>
  /\ patchDir = <<>>
  /\ up = NoUpload
  /\ jobs = <<>>
  /\ ops = <<>>
  /\ calls = 0
  /\ previousDir = <<>>
  /\ fetch = NoFetch
  /\ gen = NoGen
  /\ PipelineIdle
  /\ AuxIdle

NextFetchText ==
  \/ FetchTextFromURLCall
  \/ \E response \in Responses, latency \in Latencies : AttemptSettled(response, latency)
  \/ DelayElapsed

SpecFetchText == InitFetchText /\ [][NextFetchText]_vars

\* the same call with the progress the runtime gives: a fetch in flight settles (a
\* response or a network error or timeout), and a timer set by setTimeout fires
SpecFetchTextFair ==
  /\ SpecFetchText
  /\ WF_vars(\E response \in Responses, latency \in Latencies : AttemptSettled(response, latency))
  /\ WF_vars(DelayElapsed)

----------------------------------------------------------------------------
(* SpecScript: the ntp-sponsored-images script run with any of its inputs   *)
(* present or missing, against a ledger that has its table or not.         *)

ScriptInputs ==
  {[NoScript EXCEPT !.stage = "start", !.keysDirectory = k, !.binary = b,
                    !.keyFiles = kf, !.tableExists = t] :
     k \in BOOLEAN, b \in {Undefined, <<"brave">>}, kf \in SUBSET Components, t \in BOOLEAN}

InitScript ==
  /\ ledger = [i \in Identities |-> NoItems]
  /\ next = NoCall
  /\ storage = <<>>
  /\ patchDir = <<>>
  /\ up = NoUpload
  /\ jobs = <<>>
  /\ ops = <<>>
  /\ calls = 0
  /\ previousDir = <<>>
  /\ fetch = NoFetch
  /\ gen = NoGen
  /\ PipelineIdle
  /\ ft = NoFetchText
  /\ ver = NoVer
  /\ race = NoRace
  /\ script \in ScriptInputs

NextScript ==
  \/ ScriptStart
  \/ TablesListed
  \/ ListTablesFailed
  \/ TableCreated
  \/ CreateTableFailed
  \/ \E c \in Components, staged \in BOOLEAN, packed \in BOOLEAN :
       QueryAnswered(c, staged, packed)
  \/ \E c \in Components : QueryFailed(c)

SpecScript == InitScript /\ [][NextScript]_vars

----------------------------------------------------------------------------
(* Claims about the packaging script *)

PipelineEnded(c) == script.pipes[c] \in {"generated", "failed"}

\* C11 as stated: when the pipelines of several identities run concurrently, a failure in
\* one identity's pipeline (ledger query, staging or packing error) does not stop the
\* pipelines of the others: the process never ends with another identity's pipeline
\* still waiting for its ledger query.
C11_FailureDoesNotStopOthers ==
  \A c \in Components, d \in Components :
    (script.pipes[c] = "failed" /\ d # c /\ script.stage = "exited") => PipelineEnded(d)

\* the errors thrown for a missing required input
ConfigurationErrors ==
  {"Missing or invalid private key directory", "Missing Chromium binary: --binary",
   "Missing Brave binary: --binary", "Missing --publisher-proof-key <file>",
   "Private key file is missing, was it uploaded?"}

\* C16 as stated: a missing required input (packer binary, publisher proof key, private
\* signing key file) makes the run fail before any network or storage effect: no table
\* is listed or created and no ledger query is sent in a run that ends with this error.
C16_ConfigurationErrorBeforeAnyEffect ==
  (script.stage = "exited" /\ script.error \in ConfigurationErrors) => script.sent = <<>>

----------------------------------------------------------------------------
(* SpecVersions: incrementVersion and getPreviousVersion applied to dotted  *)
(* versions in the form the code writes them (decimal numerals without     *)
(* leading zeros), the trailing segment from -1 up.                        *)

LeadingSegments ==
  {<<<<"1">>, <<"0">>>>, <<<<"0">>, <<"0">>>>, <<<<"2">>, <<"1", "0">>>>,
   <<<<"1">>, <<"0">>, <<"0">>>>}

\* -1 is the trailing segment getPreviousVersion leaves when it steps below 0
TrailingSegments == (-1..MaxSegment) \cup {99}

RoundTripVersions ==
  {Join(l \o <<NumberToString(k)>>, ".") : l \in LeadingSegments, k \in TrailingSegments}

InitVersions ==
  /\ ledger = [i \in Identities |-> NoItems]
  /\ next = NoCall
  /\ storage = <<>>
  /\ patchDir = <<>>
  /\ up = NoUpload
  /\ jobs = <<>>
  /\ ops = <<>>
  /\ calls = 0
  /\ previousDir = <<>>
  /\ fetch = NoFetch
  /\ gen = NoGen
  /\ PipelineIdle
  /\ ft = NoFetchText
  /\ script = NoScript
  /\ race = NoRace
  /\ ver \in {[NoVer EXCEPT !.v = v] : v \in RoundTripVersions}

NextVersions ==
  \/ IncrementVersionCall
  \/ GetPreviousVersionCall

SpecVersions == InitVersions /\ [][NextVersions]_vars

----------------------------------------------------------------------------
(* Claims about fetchTextFromURL *)

InFlight == Len(ft.started) - Len(ft.ended)

\* C12: fetchTextFromURL makes at most 5 fetch attempts per call, starts an attempt only
\* after the attempt before it has failed and the fixed delay has elapsed since (never
\* two attempts in flight), and makes no further attempt once an attempt has succeeded.
C12_BoundedSequentialAttempts ==
  /\ Len(ft.started) <= 5
  /\ InFlight \in {0, 1}
  /\ \A j \in 2..Len(ft.started) :
       /\ j - 1 <= Len(ft.ended)
       /\ ft.ended[j - 1].rejected
       /\ ft.started[j] >= ft.ended[j - 1].at + delayMs
  /\ \A j \in 1..Len(ft.ended) : ~ft.ended[j].rejected => Len(ft.started) = j

C12_Witness ==
  /\ ft.status = "resolved"
  /\ Len(ft.started) = 5
  /\ Len(ft.ended) = 5
  /\ ~ft.ended[5].rejected
  /\ \A j \in 1..4 : ft.ended[j].rejected

FetchSettled == ft.status \in {"resolved", "rejected"}

\* a resolved call carries the text of its last attempt, the only one that succeeded
ResolvedWithFirstSuccess ==
  ft.status = "resolved" =>
    /\ Len(ft.ended) >= 1
    /\ ~ft.ended[Len(ft.ended)].rejected
    /\ ft.value = ft.ended[Len(ft.ended)].value
    /\ \A j \in 1..(Len(ft.ended) - 1) : ft.ended[j].rejected

\* a rejected call made maxAttempts attempts that all failed, and carries the error of
\* the last one, delayMs or more after it failed
RejectedAfterLastDelay ==
  ft.status = "rejected" =>
    /\ Len(ft.ended) = maxAttempts
    /\ \A j \in 1..maxAttempts : ft.ended[j].rejected
    /\ ft.value = ft.ended[maxAttempts].value
    /\ ft.now >= ft.ended[maxAttempts].at + delayMs

Non200Fails == \A j \in 1..Len(ft.ended) : ft.ended[j].status # 200 => ft.ended[j].rejected

\* C21 (as amended): every call of fetchTextFromURL eventually settles: it resolves with
\* the body of the first attempt that returns status 200 and whose body is read, or,
\* when all 5 attempts fail, it rejects with the error of the last attempt after the last
\* delay; a non-200 status, and a status 200 whose body cannot be read, count as a
\* failed attempt.
C21_EventuallySettles ==
  /\ [](ResolvedWithFirstSuccess /\ RejectedAfterLastDelay /\ Non200Fails)
  /\ (ft.status = "pending") ~> FetchSettled

\* a call that was retried after a 404 and after an unreadable body, and then resolved
C21_Witness ==
  /\ ft.status = "resolved"
  /\ Len(ft.ended) = 3
  /\ ft.ended[1].status = 404
  /\ ft.ended[2].status = 200 /\ ft.ended[2].rejected
  /\ ft.value = "list B"

\* C21 (as stated): the call resolves with the body of the first attempt that returns
\* status 200, whatever happens to the body.
C21_ResolvesWithFirst200 ==
  /\ [](ft.status = "resolved" =>
          /\ ft.ended[Len(ft.ended)].status = 200
          /\ ft.value = ft.ended[Len(ft.ended)].value
          /\ \A j \in 1..(Len(ft.ended) - 1) : ft.ended[j].status # 200)
  /\ [](RejectedAfterLastDelay /\ Non200Fails)
  /\ (ft.status = "pending") ~> FetchSettled

----------------------------------------------------------------------------
(* Claims about fetchPreviousVersions *)

\* the version whose trailing segment is n less, every leading segment unchanged
TrailingMinus(version, n) ==
  LET parts == Split(version, ".")
  IN  Join(SubSeq(parts, 1, Len(parts) - 1)
             \o <<NumberToString(ToNumber(parts[Len(parts)]) - n)>>, ".")

PriorVersionKey(id, version, n) ==
  <<"release", id, <<"extension_">> \o ReplaceAll(TrailingMinus(version, n), ".", "_") \o <<".crx">>>>

FetchCalled == fetch.status # "none"

DownloadDir == FilesOf(previousDir, <<"build", "previous", fetch.crx.id>>)

\* C15 as stated: for a target version with trailing segment k and a count N,
\* fetchPreviousVersions requests exactly the N storage keys of the versions whose
\* trailing segment is k-1, k-2, ..., k-N (leading segments unchanged), one request per
\* prior version, into a download directory that was emptied first.
C15_RequestsTheNPriorVersions ==
  FetchCalled =>
    /\ Len(fetch.requested) = fetch.num
    /\ \A i \in 1..fetch.num :
         fetch.requested[i] = PriorVersionKey(fetch.crx.id, fetch.crx.version, i)
    /\ DownloadDir \subseteq
         {File(<<"sha256", storage[fetch.requested[i]].body>>, ".crx") :
            i \in {j \in 1..fetch.num : fetch.requested[j] \in DOMAIN storage}}

\* the download jobs whose key the bucket does not hold
MissingJobs == {i \in 1..fetch.num : fetch.requested[i] \notin DOMAIN storage}

\* C20: during the fetch of the previous-version window, a previous artifact that is
\* missing in storage is swallowed: it leaves no file in the download directory and does
\* not fail the fetch of the other artifacts or the fetch as a whole, while any other
\* download error makes fetchPreviousVersions fail.
C20_MissingPreviousIsSwallowed ==
  FetchCalled =>
    /\ fetch.failed = {} =>
         /\ fetch.status = "resolved"
         /\ DownloadDir =
              {File(<<"sha256", storage[fetch.requested[i]].body>>, ".crx") :
                 i \in (1..fetch.num) \ MissingJobs}
    /\ fetch.failed # {} => fetch.status = "rejected"

C20_Witness ==
  /\ fetch.status = "resolved"
  /\ fetch.num = 2
  /\ fetch.crx.version = VersionOf(2)
  /\ MissingJobs = {2}
  /\ Cardinality(DownloadDir) = 1

----------------------------------------------------------------------------
(* Claims about generatePuffPatches *)

\* C10: when the diff tool reports an error for one previous artifact, patch generation
\* is still invoked for every other .crx file of the previous-artifacts directory, and
\* generatePuffPatches completes without raising.
C10_DiffErrorDoesNotAbort ==
  (gen.status # "none" /\ gen.errors # {})
    => /\ gen.status = "resolved"
       /\ gen.invoked = {f \in gen.listing : f.ext = ".crx"}

C10_Witness ==
  /\ gen.status = "resolved"
  /\ Cardinality(gen.listing) = 2
  /\ Cardinality(gen.errors) = 1
  /\ gen.invoked = gen.listing

----------------------------------------------------------------------------
(* Claims about the publish pipeline *)

Publishes(id) == history[id]

LastPublished(id) == Publishes(id)[Len(Publishes(id))].content

RecordOf(id) == ledger[id][1]

\* the run is about the hash of the identity's latest successful publish, and its
\* ledger query was answered
RepublishesSameHash ==
  /\ pc # "idle"
  /\ run.answered
  /\ Len(Publishes(run.id)) > 0
  /\ LastPublished(run.id) = run.content

FirstArtifactEntry(id, h) == generateSHA256HashOfFile(Crx(id, h, FirstVersion, NameOf(id)))

JustRecorded(id, n) ==
  /\ pc = "RecordedInLedger"
  /\ run.id = id
  /\ Len(Publishes(id)) = n
  /\ Publishes(id)[1].first

FirstPublishRecorded(id) ==
  JustRecorded(id, 1)
    => /\ RecordOf(id).Version = <<"1", ".", "0", ".", "0">>
       /\ RecordOf(id).ContentHash = Publishes(id)[1].content

SecondPublishRecorded(id) ==
  /\ RecordOf(id).Version = <<"1", ".", "0", ".", "1">>
  /\ RecordOf(id).ContentHash = Publishes(id)[2].content
  /\ Publishes(id)[2].content # Publishes(id)[1].content
  /\ DOMAIN RecordOf(id).PatchList # {}
  /\ FirstArtifactEntry(id, Publishes(id)[1].content) \in DOMAIN RecordOf(id).PatchList

\* C5 as stated: from an identity with no ledger record, a successful publish of H1 and
\* then a successful publish of a different H2 leave the record at 1.0.0 with H1 after
\* the first, and at 1.0.1 with H2 and a non-empty patch manifest holding an entry for
\* the 1.0.0 artifact after the second.
C5_TwoPublishes ==
  \A id \in Identities :
    /\ FirstPublishRecorded(id)
    /\ JustRecorded(id, 2) => SecondPublishRecorded(id)

\* C5 amended: as above, the patch manifest entry being there when the diff tool reported
\* no error in the second publish; when it did, the publish still succeeds and the
\* manifest lacks the entry.
C5_TwoPublishesDiffToolWorking ==
  \A id \in Identities :
    /\ FirstPublishRecorded(id)
    /\ (JustRecorded(id, 2) /\ gen.errors = {}) => SecondPublishRecorded(id)
    /\ (JustRecorded(id, 2) /\ gen.errors # {})
         => /\ RecordOf(id).Version = <<"1", ".", "0", ".", "1">>
            /\ RecordOf(id).ContentHash = Publishes(id)[2].content
            /\ DOMAIN RecordOf(id).PatchList = {}

C5_Witness ==
  /\ JustRecorded("idA", 2)
  /\ Publishes("idA")[1].content = H1
  /\ Publishes("idA")[2].content = H2
  /\ gen.errors = {}
  /\ RecordOf("idA").Version = VersionOf(1)
  /\ DOMAIN RecordOf("idA").PatchList = {FirstArtifactEntry("idA", H1)}

----------------------------------------------------------------------------
(* Claims about uploadExtension *)

Resolved == up.status = "resolved"

Rejected == up.status = "rejected"

TagsOf(key) == storage[key].tags

ComponentTag(name, version) == [Key |-> ComponentNameTag(name), Value |-> version]

LatestMarker(name) ==
  [Key |-> LatestVersionTagKey,
   Value |-> ComponentNameTag(name) \o <<"/", "l", "a", "t", "e", "s", "t">>]

\* the version whose trailing segment is one less
TrailingMinusOne(version) ==
  LET parts == Split(version, ".")
  IN  Join(SubSeq(parts, 1, Len(parts) - 1)
             \o <<NumberToString(ToNumber(parts[Len(parts)]) - 1)>>, ".")

TrailingMinusOneKey == ReleaseKey(up.crx.id, ComponentFilename(TrailingMinusOne(UpVersion)))

TagWrites == {i \in 1..Len(ops) : ops[i][2] = "PutObjectTagging"}

LastOp == ops[Len(ops)]

\* C6 as stated: for every version v, the first version included, when uploadExtension
\* for v completes successfully the object of v carries the component-name tag valued v
\* and the latest marker tag.
C6_UploadedCarriesBothTags ==
  Resolved => /\ UpKey \in DOMAIN storage
              /\ ComponentTag(up.crx.name, UpVersion) \in TagsOf(UpKey)
              /\ LatestMarker(up.crx.name) \in TagsOf(UpKey)

\* C7: when v is published successfully and the object of the previous version
\* (trailing segment minus 1) exists in storage, the previous object's tag set is only
\* the component-name tag valued with the previous version, and the object of v carries
\* both tags.
C7_PreviousLosesLatestMarker ==
  (Resolved /\ TrailingMinusOneKey \in DOMAIN storage)
    => /\ TagsOf(TrailingMinusOneKey)
            = {ComponentTag(up.crx.name, TrailingMinusOne(UpVersion))}
       /\ TagsOf(UpKey) = {ComponentTag(up.crx.name, UpVersion), LatestMarker(up.crx.name)}

C7_Witness ==
  /\ Resolved
  /\ UpVersion = VersionOf(2)
  /\ ReleaseKey("idA", ComponentFilename(VersionOf(1))) \in DOMAIN storage
  /\ TagsOf(ReleaseKey("idA", ComponentFilename(VersionOf(1))))
       = {[Key |-> <<"A", "d", "-", "B">>, Value |-> VersionOf(1)]}
  /\ Len(ops) > 0 /\ LastOp[2] = "PutObjectTagging"

\* C8: when HeadObject of the previous version's key reports not found, uploadExtension
\* completes without error and no second tag write is made; any other HeadObject
\* failure makes it fail.
C8_MissingPreviousIsNoOp ==
  (Len(ops) > 0 /\ LastOp[2] = "HeadObject")
    => /\ LastOp[1] = "NotFound"
            => /\ Resolved
               /\ Cardinality(TagWrites) = 1
               /\ \A i \in TagWrites : ops[i][3] = UpKey
       /\ LastOp[1] = "err" => Rejected
       /\ LastOp[1] = "ok" => Running

C8_Witness ==
  /\ Len(ops) > 0
  /\ LastOp = Settled("HeadObject", ReleaseKey("idA", ComponentFilename(VersionOf(1))), "NotFound")
  /\ Resolved
  /\ UpVersion = VersionOf(2)
  /\ ReleaseKey("idA", ComponentFilename(VersionOf(1))) \notin DOMAIN storage

FailedInPatchBatch == Rejected /\ up.step = "awaitPatches"

\* the .puff files of the patch directory of the call
PatchFilesOfCall ==
  LET dir == PatchDirOf(up.crx.id, generateSHA256HashOfFile(up.crx))
  IN  IF dir \in DOMAIN patchDir THEN {f \in patchDir[dir] : f.ext = ".puff"} ELSE {}

OpRank(i) ==
  IF ops[i][2] = "PutObject" THEN (IF ops[i][3] = UpKey THEN 1 ELSE 2)
  ELSE IF ops[i][2] = "HeadObject" THEN 4
  ELSE IF \E j \in 1..(i - 1) : ops[j][2] = "HeadObject" THEN 5
  ELSE 3

AllPatchUploadsSucceeded == \A f \in DOMAIN jobs : jobs[f] = "done"

\* C22: in uploadExtension the storage operations happen in a fixed order: the artifact
\* upload completes before any patch upload starts, the tags of the new artifact are
\* written only after the artifact upload and every patch upload have succeeded, and the
\* previous object is re-tagged only after the new artifact's tag write succeeded; when
\* an earlier step fails, none of the later steps is issued (patch uploads already in
\* flight still settle).
C22_FixedOrderOfStorageOperations ==
  /\ \A i, j \in 1..Len(ops) :
       i < j => /\ OpRank(i) <= OpRank(j)
                /\ OpRank(i) # 2 => OpRank(i) < OpRank(j)
  /\ (DOMAIN jobs # {} \/ Len(ops) >= 2) => ops[1] = Settled("PutObject", UpKey, "ok")
  /\ \A j \in 1..Len(ops) :
       OpRank(j) >= 3 => /\ AllPatchUploadsSucceeded
                         /\ \A i \in 1..(j - 1) : ops[i][1] = "ok"
  /\ (Running /\ up.step \in {"tagNew", "head", "tagPrevious"})
       => /\ AllPatchUploadsSucceeded
          /\ Len(ops) >= 1
          /\ \A i \in 1..Len(ops) : ops[i][1] = "ok"
  /\ (Running /\ up.step = "head") => LastOp = Settled("PutObjectTagging", UpKey, "ok")
  /\ (Running /\ up.step = "tagPrevious") => LastOp = Settled("HeadObject", UpPreviousKey, "ok")
  /\ \A i \in 1..Len(ops) :
       ops[i][1] # "ok" => /\ \A j \in (i + 1)..Len(ops) : OpRank(i) = 2 /\ OpRank(j) = 2
                           /\ ~Running

\* a call with two patches that went through all five steps
C22_Witness ==
  /\ Resolved
  /\ Len(ops) = 6
  /\ OpRank(2) = 2 /\ OpRank(3) = 2
  /\ OpRank(4) = 3 /\ OpRank(5) = 4 /\ OpRank(6) = 5

----------------------------------------------------------------------------
(* Claims about updateDynamoDB *)

\* the table holds under id exactly one item, made of the values of one write and of
\* nothing else
HoldsWrittenItem(table, id) ==
  \E version \in StoredVersions, contentHash \in ContentHashes \cup {Undefined} :
    table[id] = <<[ID |-> id, SHA256 |-> WrittenSha, Version |-> version,
                   Title |-> NameOf(id), Disabled |-> TRUE,
                   PatchList |-> WrittenPatchList, ContentHash |-> contentHash]>>

OneRecordPerIdentity == \A id \in Identities : Len(ledger[id]) <= 1

\* C13: the ledger holds at most one record per identity after any sequence of
\* updateDynamoDB calls: a write for identity A replaces A's whole record with the new
\* version, hash, title, disabled flag and patch manifest, and leaves the record of
\* every other identity unchanged.
C13_WriteReplacesOneRecord ==
  [][/\ OneRecordPerIdentity
     /\ ledger' # ledger =>
          \E id \in Identities :
            /\ HoldsWrittenItem(ledger', id)
            /\ \A other \in Identities \ {id} : ledger'[other] = ledger[other]]_vars

C13_Witness ==
  /\ next.id = "idA"
  /\ next.Items = <<Item("idA", VersionOf(9), LedgerSha, LedgerTitle, FALSE, H1, <<>>)>>
  /\ ledger["idA"] = <<[ID |-> "idA", SHA256 |-> WrittenSha, Version |-> VersionOf(0),
                        Title |-> <<"A", "d", " ", "(", "B", ")">>, Disabled |-> TRUE,
                        PatchList |-> WrittenPatchList, ContentHash |-> Undefined]>>
  /\ ledger["idB"] = <<Item("idB", VersionOf(9), LedgerSha, LedgerTitle, FALSE, H1, <<>>)>>

----------------------------------------------------------------------------
(* Claims about getNextVersion *)

Called == next.id # "none"

\* a record for the identity whose stored content hash equals the given hash
StoredHashMatches ==
  /\ Len(next.Items) = 1
  /\ next.Items[1].ContentHash # Undefined
  /\ next.Items[1].ContentHash = next.contentHash

\* the stored version with its trailing segment increased by exactly 1, written as a
\* plain decimal numeral, and every leading segment unchanged
TrailingSegmentPlusOne(stored, result) ==
  LET s == Split(stored, ".")
      r == Split(result, ".")
  IN  /\ Len(r) = Len(s)
      /\ \A i \in 1..(Len(s) - 1) : r[i] = s[i]
      /\ IsNumeric(r[Len(r)])
      /\ ToNumber(r[Len(r)]) = ToNumber(s[Len(s)]) + 1
      /\ r[Len(r)] = NumberToString(ToNumber(s[Len(s)]) + 1)

\* C1 as stated: getNextVersion returns NoChange (undefined) if and only if the ledger
\* holds a record for the identity whose stored content hash equals the given hash,
\* whatever the shape of the stored record.
C1_NoChangeIffHashMatches ==
  Called => ((next.result = Undefined) <=> StoredHashMatches)

\* C1 amended: getNextVersion returns NoChange if and only if the ledger holds a record
\* for the identity with a non-empty Version whose stored content hash equals the hash.
C1_NoChangeIffHashMatchesNonEmptyVersion ==
  Called => ((next.result = Undefined) <=>
               (StoredHashMatches /\ next.Items[1].Version # EmptyString))

C1_Witness ==
  /\ Called
  /\ next.result = Undefined
  /\ next.Items[1].Version = VersionOf(9)
  /\ next.Items[1].ContentHash = H2

\* C2 as stated: when a record exists and its stored content hash differs from the new
\* hash, the result is the stored version with only its trailing segment increased by 1.
C2_DifferentHashIncrementsTrailing ==
  (Called /\ Len(next.Items) = 1 /\ ~StoredHashMatches)
    => /\ next.result # Undefined
       /\ TrailingSegmentPlusOne(next.Items[1].Version, next.result)

\* C2 amended: when a record with a non-empty Version exists and its stored content hash
\* differs from the new hash, the result is the stored version with only its trailing
\* segment increased by exactly 1 as a decimal number (1.0.9 gives 1.0.10).
C2_DifferentHashIncrementsTrailingNonEmptyVersion ==
  (Called /\ Len(next.Items) = 1 /\ ~StoredHashMatches
     /\ next.Items[1].Version # EmptyString)
    => /\ next.result # Undefined
       /\ TrailingSegmentPlusOne(next.Items[1].Version, next.result)

C2_Witness ==
  /\ Called
  /\ next.Items = <<Item(next.id, VersionOf(9), LedgerSha, LedgerTitle, FALSE, H1, <<>>)>>
  /\ next.contentHash = H2
  /\ next.result = <<"1", ".", "0", ".", "1", "0">>

\* C3: when the ledger holds no record for the identity, getNextVersion returns the
\* first version 1.0.0 for every content hash (and for a call without one).
C3_NoRecordGivesFirstVersion ==
  (Called /\ next.Items = NoItems) => next.result = FirstVersion

C3_Witness ==
  /\ Called
  /\ next.Items = NoItems
  /\ next.contentHash = H1
  /\ next.result = <<"1", ".", "0", ".", "0">>

----------------------------------------------------------------------------
(* Claims about incrementVersion and getPreviousVersion *)

LeadingOf(version) ==
  LET parts == Split(version, ".") IN SubSeq(parts, 1, Len(parts) - 1)

TrailingOf(version) ==
  LET parts == Split(version, ".") IN ToNumber(parts[Len(parts)])

\* C14: for every version v, getPreviousVersion(incrementVersion(v), 1) equals v, except
\* when the incremented version is the first version "1.0.0"; the two functions are
\* inverse on the trailing segment and leave the leading segments unchanged.
C14_IncrementThenPreviousIsIdentity ==
  ver.back # Undefined =>
    /\ LeadingOf(ver.inc) = LeadingOf(ver.v)
    /\ TrailingOf(ver.inc) = TrailingOf(ver.v) + 1
    /\ ver.inc # <<"1", ".", "0", ".", "0">> =>
         /\ ver.back = ver.v
         /\ LeadingOf(ver.back) = LeadingOf(ver.inc)
         /\ TrailingOf(ver.back) = TrailingOf(ver.inc) - 1

C14_Witness ==
  /\ ver.v = <<"1", ".", "0", ".", "9">>
  /\ ver.inc = <<"1", ".", "0", ".", "1", "0">>
  /\ ver.back = <<"1", ".", "0", ".", "9">>

----------------------------------------------------------------------------
(* Claims about the order of the ledger write *)

Succeeded(command, key) == \E i \in 1..Len(ops) : ops[i] = <<"ok", command, key>>

\* the artifact upload, every patch upload and the tag updates of the run's version
\* were made and none of the run's storage commands failed
UploadAndTagsSucceeded ==
  /\ up.status = "resolved"
  /\ up.crx = run.crx
  /\ Succeeded("PutObject", <<"release", run.id, ComponentFilename(run.version)>>)
  /\ \A f \in PatchFilesOfCall :
       Succeeded("PutObject", <<"release", run.id, "patches", <<"sha256", run.crx>>, f>>)
  /\ \A f \in DOMAIN jobs : jobs[f] = "done"
  /\ Succeeded("PutObjectTagging", <<"release", run.id, ComponentFilename(run.version)>>)
  /\ Succeeded("HeadObject", UpPreviousKey) => Succeeded("PutObjectTagging", UpPreviousKey)
  /\ \A i \in 1..Len(ops) : ops[i][1] # "err"

\* C17: in a single publish attempt the ledger record is written last and only on the
\* success path: the ledger write for a version happens only after the artifact upload,
\* all patch uploads and the tag updates of that version have completed successfully,
\* and never in a run where one of them failed; nothing of the run follows it.
C17_LedgerWrittenLastOnSuccessPath ==
  [][ledger' # ledger =>
       /\ pc = "Uploading"
       /\ UploadAndTagsSucceeded
       /\ ledger'[run.id][1].Version = run.version
       /\ pc' = "RecordedInLedger"
       /\ ops' = ops /\ storage' = storage]_vars

C17_Witness ==
  /\ pc = "RecordedInLedger"
  /\ run.id = "idA"
  /\ run.version = VersionOf(1)
  /\ PatchFilesOfCall # {}
  /\ Len(ops) = 5
  /\ ledger["idA"][1].Version = VersionOf(1)

----------------------------------------------------------------------------
(* Claims about the recorded version over the runs *)

StoredTrailing(table, id) == TrailingOf(table[id][1].Version)

----------------------------------------------------------------------------
(* Claims about overlapping publishes of one identity *)

Queried(r) == race # NoRace /\ race.runs[r].pc # "start"

\* both runs read the same ledger record, and neither brings the stored hash
ReadSameRecord ==
  /\ Queried(1) /\ Queried(2)
  /\ race.runs[1].Items = race.runs[2].Items
  /\ race.runs[1].content # race.runs[2].content
  /\ race.runs[1].version # Undefined
  /\ race.runs[2].version # Undefined

LastOf(seq) == seq[Len(seq)]

\* C19: two pipeline runs for the same identity that overlap in time can race on the
\* version number: when both read the same ledger record before either writes, both are
\* assigned the same next version for different content hashes, and the later ledger
\* write and artifact upload overwrite the earlier ones.
C19_OverlappingRunsRaceOnVersion ==
  ReadSameRecord =>
    /\ race.runs[1].version = race.runs[2].version
    /\ Len(race.records) > 0 =>
         /\ Len(ledger["idA"]) = 1
         /\ ledger["idA"][1].Version = race.runs[1].version
         /\ ledger["idA"][1].ContentHash = race.runs[LastOf(race.records)].content
    /\ Len(race.puts) > 0 =>
         storage[<<"release", "idA", ComponentFilename(race.runs[1].version)>>].body.content
           = race.runs[LastOf(race.puts)].content

C19_Witness ==
  /\ ReadSameRecord
  /\ race.runs[1].Items = NoItems
  /\ race.runs[1].version = <<"1", ".", "0", ".", "0">>
  /\ race.runs[2].version = <<"1", ".", "0", ".", "0">>
  /\ race.puts = <<2, 1>>
  /\ race.records = <<1, 2>>
  /\ ledger["idA"][1].ContentHash = race.runs[2].content
  /\ storage[<<"release", "idA", ComponentFilename(FirstVersion)>>].body.content
       = race.runs[1].content

----------------------------------------------------------------------------
(* Claims about the latest marker over a series of publishes *)

\* the pipeline has just recorded a publish of idA, and every run so far was a publish of
\* idA that succeeded: the versions 1.0.0, 1.0.1, ... were published one after the other
AfterSerialPublishes ==
  /\ pc = "RecordedInLedger"
  /\ run.id = "idA"
  /\ runs = Len(history["idA"])

\* the artifacts of idA in the bucket that carry the latest marker
MarkedLatest ==
  {key \in DOMAIN storage :
     /\ Len(key) = 3
     /\ key[2] = "idA"
     /\ LatestMarker(NameOf("idA")) \in TagsOf(key)}

\* C23 as stated: after any sequence of successful, serialized publishes for one identity
\* (starting with the first version 1.0.0), exactly one stored object of that identity
\* carries the latest marker tag, and it is the object of the most recently published
\* version.
C23_ExactlyOneLatestMarker ==
  AfterSerialPublishes =>
    MarkedLatest = {ReleaseKey("idA", ComponentFilename(run.crx.version))}

----------------------------------------------------------------------------
(* Claims about the keys fetchPreviousVersions requests *)

\* the version segments a requested key names: extension_<a>_<b>_<c>.crx
RequestedSegments(i) ==
  LET filename == fetch.requested[i][3]
  IN  Split(SubSeq(filename, 2, Len(filename) - 1), "_")

RequestedTrailing(i) == ToNumber(RequestedSegments(i)[Len(RequestedSegments(i))])

\* C24 as stated: for every target version and count N, the storage keys requested by
\* fetchPreviousVersions are pairwise distinct, each names a version strictly older than
\* the target, and none has a negative trailing segment.
C24_RequestedKeysDistinctOlderNonNegative ==
  FetchCalled =>
    /\ \A i, j \in 1..Len(fetch.requested) :
         i # j => fetch.requested[i] # fetch.requested[j]
    /\ \A i \in 1..Len(fetch.requested) :
         /\ SubSeq(RequestedSegments(i), 1, Len(RequestedSegments(i)) - 1)
              = LeadingOf(fetch.crx.version)
         /\ RequestedTrailing(i) < TrailingOf(fetch.crx.version)
         /\ RequestedTrailing(i) >= 0

====
